---- MODULE Spec2Model ----
(***************************************************************************)
(* A model of library/src/meta/heading.rs: the heading element, its        *)
(* synthesis, rendering (show, finalize), its contribution to the heading  *)
(* counter, its reference accessors, its outline entry and its localized   *)
(* name.                                                                   *)
(*                                                                         *)
(* Values.  An element field is an option: <<>> when the field is not set  *)
(* on the element, <<v>> when it is.  Content, values and results are      *)
(* tuples whose first component is a tag.  A style chain is a sequence of  *)
(* links, innermost first; a link is the property list of one set rule,    *)
(* a sequence of <<name, value>> pairs.                                    *)
(***************************************************************************)
EXTENDS Integers, Sequences, FiniteSets, TLC

VARIABLES
    elem,     \* the heading element under compilation (SpecElem)
    styles,   \* the style chain in scope of that element
    pc,       \* the position of the compilation pass
    res,      \* the outcome of the last operation
    index,    \* the counter index: index[l] is the heading counter at location l
    doc,      \* the headings of a document, in document order (SpecDoc)
    listing   \* the outline of the document: one outline() outcome per heading

vars == <<elem, styles, pc, res, index, doc, listing>>

\* ------------------------------------------------------------------ bounds

\* Levels an element's level field is drawn from: 1..MaxLevel.
MaxLevel == 2
\* The longest style chain (links) in scope of the element.
MaxChain == 1
\* The most headings of a document.
MaxHeadings == 4

\* ----------------------------------------------------------------- content

\* Content::empty()
Empty == <<"empty">>
\* TextElem::packed(text)
TextPacked(s) == <<"text", s>>
\* a + b + c on content: a sequence of its parts
Seq3(a, b, c) == <<"sequence", a, b, c>>
\* HElem::new(Em::new(0.3).into()).with_weak(true).pack(): amount in em/10
HWeak == <<"h", 3, TRUE>>
\* SpaceElem::new().pack()
Space == <<"space">>
\* BlockElem::new().with_body(Some(realized)).pack()
Block(realized) == <<"block", realized>>
\* Counter::of(HeadingElem::func()).display(Some(numbering), false)
CounterDisplay(n) == <<"counter-display", "heading", n, FALSE>>

\* Value::None and Value::Content(c), the arguments and results of functions
VNone == <<"none">>
VContent(c) == <<"content", c>>
\* Value::display: the content a value is shown as
Display(v) == IF v[1] = "content" THEN v[2] ELSE Empty

\* The user functions of the model: "f" and "g" return content built from
\* their arguments, "bad" fails.
Funcs == {"f", "g", "bad"}
\* Func::call_vt(vt, args): SourceResult<Value>
CallFunc(f, args) ==
    IF f = "bad"
    THEN [status |-> "err", val |-> VNone]
    ELSE [status |-> "ok", val |-> VContent(<<"call", f, args>>)]

\* ------------------------------------------------------------- style chain

RECURSIVE Concat(_)
Concat(ss) == IF ss = <<>> THEN <<>> ELSE Head(ss) \o Concat(Tail(ss))

Reverse(s) == [i \in 1..Len(s) |-> s[Len(s) + 1 - i]]

\* The properties of a chain in lookup order: innermost link first, and within
\* a link the later property first.
Entries(chain) == Concat([i \in 1..Len(chain) |-> Reverse(chain[i])])

RECURSIVE Find(_, _)
Find(props, name) ==
    IF props = <<>> THEN <<>>
    ELSE IF Head(props)[1] = name THEN <<Head(props)[2]>>
    ELSE Find(Tail(props), name)

\* StyleChain::get(elem, name, inherent, default): the element's own field if
\* set, else the nearest property of the chain, else the default.
Get(inherent, chain, name, default) ==
    IF inherent # <<>> THEN inherent[1]
    ELSE LET p == Find(Entries(chain), name)
         IN IF p # <<>> THEN p[1] ELSE default

\* StyleChain::default()
DefaultChain == <<>>

\* ---------------------------------------------------------- field accessors

\* #[default(NonZeroUsize::ONE)]
DefaultLevel == 1

level(self, chain) == Get(self.level, chain, "level", DefaultLevel)
numbering(self, chain) == Get(self.numbering, chain, "numbering", "none")
supplement(self, chain) == Get(self.supplement, chain, "supplement", <<"auto">>)
outlined(self, chain) == Get(self.outlined, chain, "outlined", TRUE)
display(self, chain) == Get(self.display, chain, "display", "none")
outline(self, chain) == Get(self.outline, chain, "outline", "none")
body(self) == self.body

\* TextElem::lang_in(styles), TextElem::region_in(styles)
lang_in(chain) == Get(<<>>, chain, "lang", "en")
region_in(chain) == Find(Entries(chain), "region")

\* --------------------------------------------------------------- LocalName

\* The languages local_name has an arm for (Lang::ARABIC ... Lang::VIETNAMESE,
\* and Lang::ENGLISH).
TableLangs ==
    {"ar", "nb", "zh", "cs", "da", "nl", "fr", "de", "it", "nn", "pl", "pt",
     "ru", "sl", "es", "sv", "ua", "vi", "en"}

\* typst::util::option_eq(region, s)
option_eq(region, s) == region # <<>> /\ region[1] = s

\* local_name with the unguarded Chinese arm first: the region is never read.
local_name_unguarded(lang, region) ==
    CASE lang = "ar" -> "al-fasl"
      [] lang = "nb" -> "Kapittel"
      [] lang = "zh" -> "xiaojie (Hans)"
      [] lang = "cs" -> "Kapitola"
      [] lang = "da" -> "Afsnit"
      [] lang = "nl" -> "Hoofdstuk"
      [] lang = "fr" -> "Chapitre"
      [] lang = "de" -> "Abschnitt"
      [] lang = "it" -> "Sezione"
      [] lang = "nn" -> "Kapittel"
      [] lang = "pl" -> "Sekcja"
      [] lang = "pt" -> "Secao"
      [] lang = "ru" -> "Razdel"
      [] lang = "sl" -> "Poglavje"
      [] lang = "es" -> "Seccion"
      [] lang = "sv" -> "Kapitel"
      [] lang = "ua" -> "Rozdil"
      [] lang = "vi" -> "Phan"
      [] OTHER -> "Section"

\* impl LocalName for HeadingElem.  The labels outside ASCII are written in
\* transliteration: "al-fasl" (ar), "xiaojie (Hant)" (zh, TW),
\* "xiaojie (Hans)" (zh), "Secao" (pt), "Razdel" (ru), "Seccion" (es),
\* "Rozdil" (ua), "Phan" (vi).
local_name(lang, region) ==
    CASE lang = "ar" -> "al-fasl"
      [] lang = "nb" -> "Kapittel"
      [] lang = "zh" /\ option_eq(region, "TW") -> "xiaojie (Hant)"
      [] lang = "zh" /\ ~option_eq(region, "TW") -> "xiaojie (Hans)"
      [] lang = "cs" -> "Kapitola"
      [] lang = "da" -> "Afsnit"
      [] lang = "nl" -> "Hoofdstuk"
      [] lang = "fr" -> "Chapitre"
      [] lang = "de" -> "Abschnitt"
      [] lang = "it" -> "Sezione"
      [] lang = "nn" -> "Kapittel"
      [] lang = "pl" -> "Sekcja"
      [] lang = "pt" -> "Secao"
      [] lang = "ru" -> "Razdel"
      [] lang = "sl" -> "Poglavje"
      [] lang = "es" -> "Seccion"
      [] lang = "sv" -> "Kapitel"
      [] lang = "ua" -> "Rozdil"
      [] lang = "vi" -> "Phan"
      [] OTHER -> "Section"

\* LocalName::local_name_in(styles)
local_name_in(chain) == local_name(lang_in(chain), region_in(chain))

\* ------------------------------------------------------------- Synthesize

\* Supplement::resolve(vt, [heading]): the content of a content supplement,
\* the displayed result of a function supplement called with the heading.
resolve(supp, self) ==
    IF supp[1] = "content"
    THEN [status |-> "ok", val |-> supp[2], calls |-> <<>>]
    ELSE LET args == <<VContent(<<"heading", self>>)>>
             r == CallFunc(supp[2], args)
         IN [status |-> r.status, val |-> Display(r.val),
             calls |-> <<[func |-> supp[2], args |-> args]>>]

\* synthesize that pushes each field as soon as it is resolved, the level
\* before the supplement function is called.
synthesize_eager(self, vt, chain) ==
    LET s0 == [self EXCEPT !.level = <<level(self, chain)>>]
        supp == supplement(s0, chain)
        r == CASE supp = <<"auto">> ->
                    [status |-> "ok", val |-> TextPacked(local_name_in(chain)),
                     calls |-> <<>>]
               [] supp = <<"none">> ->
                    [status |-> "ok", val |-> Empty, calls |-> <<>>]
               [] OTHER -> resolve(supp, self)
    IN IF r.status = "err"
       THEN [status |-> "err", elem |-> s0, vt |-> vt, calls |-> r.calls]
       ELSE [status |-> "ok",
             elem |-> [s0 EXCEPT
                 !.numbering = <<numbering(s0, chain)>>,
                 !.supplement = <<<<"content", r.val>>>>,
                 !.outlined = <<outlined(s0, chain)>>,
                 !.display = <<display(s0, chain)>>,
                 !.outline = <<outline(s0, chain)>>],
             vt |-> vt, calls |-> r.calls]

\* synthesize that puts the local name before a custom supplement.
synthesize_prefixed(self, vt, chain) ==
    LET supp == supplement(self, chain)
        name == TextPacked(local_name_in(chain))
        r == CASE supp = <<"auto">> ->
                    [status |-> "ok", val |-> name, calls |-> <<>>]
               [] supp = <<"none">> ->
                    [status |-> "ok", val |-> Empty, calls |-> <<>>]
               [] OTHER ->
                    LET q == resolve(supp, self)
                    IN [q EXCEPT !.val = Seq3(name, Space, q.val)]
    IN IF r.status = "err"
       THEN [status |-> "err", elem |-> self, vt |-> vt, calls |-> r.calls]
       ELSE [status |-> "ok",
             elem |-> [self EXCEPT
                 !.level = <<level(self, chain)>>,
                 !.numbering = <<numbering(self, chain)>>,
                 !.supplement = <<<<"content", r.val>>>>,
                 !.outlined = <<outlined(self, chain)>>,
                 !.display = <<display(self, chain)>>,
                 !.outline = <<outline(self, chain)>>],
             vt |-> vt, calls |-> r.calls]

\* synthesize that forgets to push the numbering.
synthesize_no_numbering(self, vt, chain) ==
    LET supp == supplement(self, chain)
        r == CASE supp = <<"auto">> ->
                    [status |-> "ok", val |-> TextPacked(local_name_in(chain)),
                     calls |-> <<>>]
               [] supp = <<"none">> ->
                    [status |-> "ok", val |-> Empty, calls |-> <<>>]
               [] OTHER -> resolve(supp, self)
    IN IF r.status = "err"
       THEN [status |-> "err", elem |-> self, vt |-> vt, calls |-> r.calls]
       ELSE [status |-> "ok",
             elem |-> [self EXCEPT
                 !.level = <<level(self, chain)>>,
                 !.supplement = <<<<"content", r.val>>>>,
                 !.outlined = <<outlined(self, chain)>>,
                 !.display = <<display(self, chain)>>,
                 !.outline = <<outline(self, chain)>>],
             vt |-> vt, calls |-> r.calls]

\* impl Synthesize for HeadingElem: the supplement is resolved first (the `?`
\* returns before any push), then the six fields are pushed in order, each
\* read from the element as the earlier pushes left it.  vt is passed through
\* to the supplement function and is otherwise untouched.
synthesize(self, vt, chain) ==
    LET supp == supplement(self, chain)
        r == CASE supp = <<"auto">> ->
                    [status |-> "ok", val |-> TextPacked(local_name_in(chain)),
                     calls |-> <<>>]
               [] supp = <<"none">> ->
                    [status |-> "ok", val |-> Empty, calls |-> <<>>]
               [] OTHER -> resolve(supp, self)
    IN IF r.status = "err"
       THEN [status |-> "err", elem |-> self, vt |-> vt, calls |-> r.calls]
       ELSE LET s1 == [self EXCEPT !.level = <<level(self, chain)>>]
                s2 == [s1 EXCEPT !.numbering = <<numbering(s1, chain)>>]
                s3 == [s2 EXCEPT !.supplement = <<<<"content", r.val>>>>]
                s4 == [s3 EXCEPT !.outlined = <<outlined(s3, chain)>>]
                s5 == [s4 EXCEPT !.display = <<display(s4, chain)>>]
                s6 == [s5 EXCEPT !.outline = <<outline(s5, chain)>>]
            IN [status |-> "ok", elem |-> s6, vt |-> vt, calls |-> r.calls]

\* ------------------------------------------------------------------- Show

\* show that composes number, space and the override's result when an override
\* is present.
show_composed(self, vt, chain) ==
    LET n == numbering(self, chain)
        numbers == IF n = "none" THEN VNone ELSE VContent(CounterDisplay(n))
        f == display(self, chain)
    IN IF f = "none"
       THEN [status |-> "ok",
             val |-> Block(IF n = "none" THEN body(self)
                           ELSE Seq3(numbers[2], HWeak, body(self))),
             calls |-> <<>>]
       ELSE LET args == <<numbers, VContent(body(self))>>
                r == CallFunc(f, args)
            IN [status |-> r.status,
                val |-> IF r.status # "ok" THEN Empty
                        ELSE IF n = "none" THEN Block(Display(r.val))
                        ELSE Block(Seq3(numbers[2], HWeak, Display(r.val))),
                calls |-> <<[func |-> f, args |-> args]>>]

\* impl Show for HeadingElem: the match on (numbers, display).
show(self, vt, chain) ==
    LET n == numbering(self, chain)
        numbers == IF n = "none" THEN VNone ELSE VContent(CounterDisplay(n))
        f == display(self, chain)
    IN CASE n # "none" /\ f = "none" ->
              [status |-> "ok",
               val |-> Block(Seq3(numbers[2], HWeak, body(self))),
               calls |-> <<>>]
         [] n # "none" /\ f # "none" ->
              LET args == <<numbers, VContent(body(self))>>
                  r == CallFunc(f, args)
              IN [status |-> r.status,
                  val |-> IF r.status = "ok" THEN Block(Display(r.val)) ELSE Empty,
                  calls |-> <<[func |-> f, args |-> args]>>]
         [] n = "none" /\ f # "none" ->
              LET args == <<VNone, VContent(body(self))>>
                  r == CallFunc(f, args)
              IN [status |-> r.status,
                  val |-> IF r.status = "ok" THEN Block(Display(r.val)) ELSE Empty,
                  calls |-> <<[func |-> f, args |-> args]>>]
         [] OTHER ->
              [status |-> "ok", val |-> Block(body(self)), calls |-> <<>>]

\* --------------------------------------------------------------- Finalize

\* impl Finalize for HeadingElem.  Lengths are in em/100: the text size is the
\* scale, the spacing above and below is a quotient <<numerator, scale>>.
finalize(self, realized, chain) ==
    LET l == level(self, chain)
        scale == CASE l = 1 -> 140 [] l = 2 -> 120 [] OTHER -> 100
        above == <<IF l = 1 THEN 180 ELSE 144, scale>>
        below == <<75, scale>>
    IN <<"styled", realized,
         [size |-> scale, weight |-> "bold", above |-> above, below |-> below,
          sticky |-> TRUE]>>

\* ----------------------------------------------------------------- Count

\* Option<CounterUpdate>: <<>> is None, <<<<"step", l>>>> is Some(Step(l)).
\* update that steps whether or not the heading is numbered.
update_always(self) == << <<"step", level(self, DefaultChain)>> >>

\* update that steps the top level whatever the heading's level is.
update_level_one(self) ==
    IF numbering(self, DefaultChain) # "none"
    THEN << <<"step", DefaultLevel>> >>
    ELSE <<>>

\* impl Count for HeadingElem
update(self) ==
    IF numbering(self, DefaultChain) # "none"
    THEN << <<"step", level(self, DefaultChain)>> >>
    ELSE <<>>

\* ---------------------------------------------------------------- Refable

\* impl Refable for HeadingElem: supplement
Refable_supplement(self) ==
    LET s == supplement(self, DefaultChain)
    IN IF s[1] = "content" THEN s[2] ELSE Empty

\* impl Refable for HeadingElem: counter
Refable_counter(self) == <<"counter", "heading">>

\* impl Refable for HeadingElem: numbering
Refable_numbering(self) == numbering(self, DefaultChain)

\* ---------------------------------------------------------------- counter

\* The value of a counter no event has touched.
InitialState == <<0>>

\* CounterState::step(level): a level within the vector increments that
\* component and drops the deeper ones; a deeper level pads with zeros and
\* ends in one.
Step(state, l) ==
    IF l <= Len(state)
    THEN [i \in 1..l |-> IF i = l THEN state[i] + 1 ELSE state[i]]
    ELSE [i \in 1..l |-> IF i <= Len(state) THEN state[i]
                         ELSE IF i = l THEN 1 ELSE 0]

\* CounterState::update: what an element's optional update does to the state.
Apply(state, upd) == IF upd = <<>> THEN state ELSE Step(state, upd[1][2])

\* Counter::sequence: the counter after each element of the document, in
\* document order, replayed from the initial state.
RECURSIVE Sequence(_)
Sequence(elems) ==
    IF elems = <<>> THEN <<>>
    ELSE LET n == Len(elems)
             before == Sequence(SubSeq(elems, 1, n - 1))
             prev == IF n = 1 THEN InitialState ELSE before[n - 1]
         IN Append(before, Apply(prev, update(elems[n])))

\* Counter::at(vt, location): the counter at a location of the index; a
\* location the index does not hold is an error.
CounterAt(vt, loc) ==
    IF loc \in 1..Len(vt)
    THEN [status |-> "ok", val |-> vt[loc]]
    ELSE [status |-> "err", val |-> <<>>]

\* CounterState::display(vt, numbering): the label of a counter value.
StateDisplay(state, n) == <<"numbers", n, state>>

\* -------------------------------------------------------------- Outlinable

\* Option<Content>: <<>> is None, <<c>> is Some(c).
\* outline that reads the display override where it should read the outline
\* override.
outline_display_override(self, vt) ==
    IF ~outlined(self, DefaultChain)
    THEN [status |-> "ok", val |-> <<>>, calls |-> <<>>]
    ELSE
    LET n == numbering(self, DefaultChain)
        at == IF n = "none" \/ self.location = <<>>
              THEN [status |-> "ok", val |-> <<>>]
              ELSE CounterAt(vt, self.location[1])
        numbers == IF n = "none" THEN VNone
                   ELSE VContent(StateDisplay(at.val, n))
        f == display(self, DefaultChain)
    IN CASE n # "none" /\ self.location = <<>> ->
              [status |-> "panic", val |-> <<>>, calls |-> <<>>]
         [] n # "none" /\ self.location # <<>> /\ at.status = "err" ->
              [status |-> "err", val |-> <<>>, calls |-> <<>>]
         [] OTHER ->
              IF f = "none"
              THEN [status |-> "ok",
                    val |-> IF n = "none" THEN <<body(self)>>
                            ELSE <<Seq3(numbers[2], Space, body(self))>>,
                    calls |-> <<>>]
              ELSE LET args == <<numbers, VContent(body(self))>>
                       r == CallFunc(f, args)
                   IN [status |-> r.status,
                       val |-> IF r.status = "ok" THEN <<Display(r.val)>> ELSE <<>>,
                       calls |-> <<[func |-> f, args |-> args]>>]

\* outline that leaves out every heading below the top level.
outline_top_level(self, vt) ==
    IF ~outlined(self, DefaultChain) \/ level(self, DefaultChain) > 1
    THEN [status |-> "ok", val |-> <<>>, calls |-> <<>>]
    ELSE
    LET n == numbering(self, DefaultChain)
        at == IF n = "none" \/ self.location = <<>>
              THEN [status |-> "ok", val |-> <<>>]
              ELSE CounterAt(vt, self.location[1])
        numbers == IF n = "none" THEN VNone
                   ELSE VContent(StateDisplay(at.val, n))
        f == outline(self, DefaultChain)
    IN CASE n # "none" /\ self.location = <<>> ->
              [status |-> "panic", val |-> <<>>, calls |-> <<>>]
         [] n # "none" /\ self.location # <<>> /\ at.status = "err" ->
              [status |-> "err", val |-> <<>>, calls |-> <<>>]
         [] OTHER ->
              IF f = "none"
              THEN [status |-> "ok",
                    val |-> IF n = "none" THEN <<body(self)>>
                            ELSE <<Seq3(numbers[2], Space, body(self))>>,
                    calls |-> <<>>]
              ELSE LET args == <<numbers, VContent(body(self))>>
                       r == CallFunc(f, args)
                   IN [status |-> r.status,
                       val |-> IF r.status = "ok" THEN <<Display(r.val)>> ELSE <<>>,
                       calls |-> <<[func |-> f, args |-> args]>>]

\* impl Outlinable for HeadingElem: outline.  A heading that is not outlined
\* returns Ok(None).  A numbered one reads the counter at its location:
\* location().unwrap() panics when the element has no location, and an error
\* of Counter::at is returned (`?`).  Then the match on (numbers, outline).
Outlinable_outline(self, vt) ==
    IF ~outlined(self, DefaultChain)
    THEN [status |-> "ok", val |-> <<>>, calls |-> <<>>]
    ELSE
    LET n == numbering(self, DefaultChain)
        at == IF n = "none" \/ self.location = <<>>
              THEN [status |-> "ok", val |-> <<>>]
              ELSE CounterAt(vt, self.location[1])
        numbers == IF n = "none" THEN VNone
                   ELSE VContent(StateDisplay(at.val, n))
        f == outline(self, DefaultChain)
    IN CASE n # "none" /\ self.location = <<>> ->
              [status |-> "panic", val |-> <<>>, calls |-> <<>>]
         [] n # "none" /\ self.location # <<>> /\ at.status = "err" ->
              [status |-> "err", val |-> <<>>, calls |-> <<>>]
         [] n # "none" /\ self.location # <<>> /\ at.status = "ok"
               /\ f = "none" ->
              [status |-> "ok",
               val |-> <<Seq3(numbers[2], Space, body(self))>>,
               calls |-> <<>>]
         [] n # "none" /\ self.location # <<>> /\ at.status = "ok"
               /\ f # "none" ->
              LET args == <<numbers, VContent(body(self))>>
                  r == CallFunc(f, args)
              IN [status |-> r.status,
                  val |-> IF r.status = "ok" THEN <<Display(r.val)>> ELSE <<>>,
                  calls |-> <<[func |-> f, args |-> args]>>]
         [] n = "none" /\ f # "none" ->
              LET args == <<VNone, VContent(body(self))>>
                  r == CallFunc(f, args)
              IN [status |-> r.status,
                  val |-> IF r.status = "ok" THEN <<Display(r.val)>> ELSE <<>>,
                  calls |-> <<[func |-> f, args |-> args]>>]
         [] OTHER ->
              [status |-> "ok", val |-> <<body(self)>>, calls |-> <<>>]

\* impl Outlinable for HeadingElem: level
Outlinable_level(self) == level(self, DefaultChain)

\* ------------------------------------------------------------------ inputs

\* HeadingElem::new(body) and the with_* setters: the fields a heading is
\* constructed with.  A heading has no location until layout assigns one.
NewHeading(l, n, s, o, d, ol) ==
    [level |-> l, numbering |-> n, supplement |-> s, outlined |-> o,
     display |-> d, outline |-> ol,
     body |-> TextPacked("Title"), location |-> <<>>]

Levels == 1..MaxLevel

NewElems ==
    { NewHeading(l, n, s, o, d, ol) :
        l \in {<<>>} \cup {<<k>> : k \in Levels},
        n \in {<<>>, <<"none">>, <<"1.">>},
        s \in {<<>>, << <<"auto">> >>, << <<"none">> >>,
               << <<"content", TextPacked("Chapter")>> >>,
               << <<"func", "f">> >>, << <<"func", "bad">> >>},
        o \in {<<>>, <<TRUE>>, <<FALSE>>},
        d \in {<<>>, <<"none">>, <<"f">>},
        ol \in {<<>>, <<"g">>} }

\* The set rules in scope: the property list of each.
Rules ==
    { << <<"level", MaxLevel + 1>> >>,
      << <<"numbering", "1.a">> >>,
      << <<"supplement", <<"auto">> >> >>,
      << <<"supplement", <<"content", TextPacked("Part")>> >> >>,
      << <<"outlined", FALSE>> >>,
      << <<"display", "g">> >>,
      << <<"display", "bad">> >>,
      << <<"outline", "f">> >>,
      << <<"numbering", "1.a">>, <<"outline", "bad">> >>,
      << <<"lang", "de">> >>,
      << <<"lang", "zh">>, <<"region", "TW">> >> }

RECURSIVE ChainsOf(_)
ChainsOf(n) ==
    IF n = 0 THEN {<<>>}
    ELSE LET shorter == ChainsOf(n - 1)
         IN shorter \cup { <<r>> \o c : r \in Rules, c \in {x \in shorter : Len(x) = n - 1} }

Chains == ChainsOf(MaxChain)

\* The element of a specification that compiles no single element.
NoElem == NewHeading(<<>>, <<>>, <<>>, <<>>, <<>>, <<>>)

\* The outcome of an operation: what ran, how it ended ("ok", "err":
\* SourceResult's Err, "panic"), its value, the user functions it called, and
\* the element it ran on.
Outcome(op, status, val, calls, pre) ==
    [op |-> op, status |-> status, val |-> val, calls |-> calls, pre |-> pre]

NoRes == Outcome("none", "ok", <<>>, <<>>, NoElem)

\* ------------------------------------------------- one element (SpecElem)

InitElem ==
    /\ elem \in NewElems
    /\ styles \in Chains
    /\ pc = "new"
    /\ res = NoRes
    /\ index = <<>>
    /\ doc = <<>>
    /\ listing = <<>>

\* The realization calls synthesize on the new element; the second call is
\* the repeated synthesis of an already synthesized element.
Synthesize ==
    /\ pc \in {"new", "synth"}
    /\ LET r == synthesize(elem, index, styles)
       IN /\ elem' = r.elem
          /\ index' = r.vt
          /\ res' = Outcome("synthesize", r.status, <<>>, r.calls, elem)
          /\ pc' = IF r.status = "err" THEN "failed"
                   ELSE IF pc = "new" THEN "synth" ELSE "resynth"
    /\ UNCHANGED <<styles, doc, listing>>

Show ==
    /\ pc \in {"synth", "resynth"}
    /\ LET r == show(elem, index, styles)
       IN /\ res' = Outcome("show", r.status, r.val, r.calls, elem)
          /\ pc' = IF r.status = "err" THEN "failed" ELSE "shown"
    /\ UNCHANGED <<elem, styles, index, doc, listing>>

Finalize ==
    /\ pc = "shown"
    /\ res' = Outcome("finalize", "ok", finalize(elem, res.val, styles), <<>>, elem)
    /\ pc' = "final"
    /\ UNCHANGED <<elem, styles, index, doc, listing>>

\* Layout assigns the element its location.
Locate ==
    /\ pc = "final"
    /\ elem' = [elem EXCEPT !.location = <<1>>]
    /\ res' = Outcome("locate", "ok", <<>>, <<>>, elem)
    /\ pc' = "located"
    /\ UNCHANGED <<styles, index, doc, listing>>

\* The introspector indexes the located element: the counter sequence.
Introspect ==
    /\ pc = "located"
    /\ index' = Sequence(<<elem>>)
    /\ res' = Outcome("introspect", "ok", <<>>, <<>>, elem)
    /\ pc' = "indexed"
    /\ UNCHANGED <<elem, styles, doc, listing>>

Update ==
    /\ pc \in {"new", "synth"}
    /\ res' = Outcome("update", "ok", update(elem), <<>>, elem)
    /\ UNCHANGED <<elem, styles, pc, index, doc, listing>>

RefSupplement ==
    /\ pc = "synth"
    /\ res' = Outcome("supplement", "ok", Refable_supplement(elem), <<>>, elem)
    /\ UNCHANGED <<elem, styles, pc, index, doc, listing>>

RefNumbering ==
    /\ pc = "synth"
    /\ res' = Outcome("numbering", "ok", <<Refable_numbering(elem)>>, <<>>, elem)
    /\ UNCHANGED <<elem, styles, pc, index, doc, listing>>

OutlineLevel ==
    /\ pc = "synth"
    /\ res' = Outcome("level", "ok", <<Outlinable_level(elem)>>, <<>>, elem)
    /\ UNCHANGED <<elem, styles, pc, index, doc, listing>>

Outline ==
    /\ pc \in {"final", "located", "indexed"}
    /\ LET r == Outlinable_outline(elem, index)
       IN res' = Outcome("outline", r.status, r.val, r.calls, elem)
    /\ UNCHANGED <<elem, styles, pc, index, doc, listing>>

NextElem ==
    \/ Synthesize
    \/ Show
    \/ Finalize
    \/ Locate
    \/ Introspect
    \/ Update
    \/ RefSupplement
    \/ RefNumbering
    \/ OutlineLevel
    \/ Outline

SpecElem == InitElem /\ [][NextElem]_vars

\* --------------------------------------------------- a document (SpecDoc)

\* A heading of the document as synthesis leaves it: every field set.
DocHeading(l, n, o) ==
    NewHeading(<<l>>, <<n>>, << <<"content", TextPacked("Section")>> >>, <<o>>,
               <<"none">>, <<"none">>)

InitDoc ==
    /\ elem = NoElem
    /\ styles = DefaultChain
    /\ pc = "build"
    /\ res = NoRes
    /\ index = <<>>
    /\ doc = <<>>
    /\ listing = <<>>

\* The next heading of the document, in document order.
AddHeading ==
    /\ pc = "build"
    /\ Len(doc) < MaxHeadings
    /\ \E l \in Levels, n \in {"none", "1."}, o \in BOOLEAN :
          doc' = Append(doc, DocHeading(l, n, o))
    /\ UNCHANGED <<elem, styles, pc, res, index, listing>>

\* Layout gives each heading its location, in document order, and the
\* introspector indexes the heading counter at each.
Layout ==
    /\ pc = "build"
    /\ doc # <<>>
    /\ doc' = [i \in 1..Len(doc) |-> [doc[i] EXCEPT !.location = <<i>>]]
    /\ index' = Sequence(doc')
    /\ pc' = "laid"
    /\ UNCHANGED <<elem, styles, res, listing>>

\* The outline element asks every heading for its entry.
OutlineAll ==
    /\ pc = "laid"
    /\ listing' = [i \in 1..Len(doc) |-> Outlinable_outline(doc[i], index)]
    /\ pc' = "listed"
    /\ UNCHANGED <<elem, styles, res, index, doc>>

NextDoc ==
    \/ AddHeading
    \/ Layout
    \/ OutlineAll

SpecDoc == InitDoc /\ [][NextDoc]_vars

\* ------------------------------------------------ local names (SpecName)

\* The languages and regions local_name is asked for: those of its table and
\* three it has no arm for.
Langs == TableLangs \cup {"ja", "tr", "xx"}
Regions == {<<>>, <<"TW">>, <<"CN">>, <<"HK">>, <<"US">>}

InitName ==
    /\ elem = NoElem
    /\ styles = DefaultChain
    /\ pc = "name"
    /\ res = NoRes
    /\ index = <<>>
    /\ doc = <<>>
    /\ listing = <<>>

LocalName ==
    /\ pc = "name"
    /\ \E lang \in Langs, region \in Regions :
          res' = Outcome("local_name", "ok",
                         <<lang, region, local_name(lang, region)>>, <<>>, elem)
    /\ UNCHANGED <<elem, styles, pc, index, doc, listing>>

NextName == LocalName

SpecName == InitName /\ [][NextName]_vars

\* ------------------------------------------------------------------ claims

\* C1: Count::update returns Step(level) with the heading's own level exactly
\* when its numbering field holds a numbering, and nothing when the numbering
\* is none or the field is not set; in a document the heading counter at a
\* heading whose numbering is none equals the counter just before it.
C1_UpdateStepsIffNumbered ==
    \A i \in 1..Len(doc) :
        LET h == doc[i]
        IN /\ h.numbering # <<"none">> => update(h) = << <<"step", h.level[1]>> >>
           /\ h.numbering = <<"none">> => update(h) = <<>>
           /\ update([h EXCEPT !.numbering = <<>>]) = <<>>
           /\ (pc \in {"laid", "listed"} /\ h.numbering = <<"none">>) =>
                 index[i] = IF i = 1 THEN InitialState ELSE index[i - 1]

\* A laid out document in which an unnumbered heading follows a numbered one.
C1_Witness ==
    /\ pc = "laid"
    /\ \E i \in 2..Len(doc) :
          /\ doc[i].numbering = <<"none">>
          /\ doc[i - 1].numbering = <<"1.">>
          /\ index[i] = index[i - 1]
          /\ index[i] # InitialState

\* What makes outline fail on a heading: its outline override fails, or it is
\* numbered and the counter cannot be read at its location.
OutlineFails(h, vt) ==
    \/ outline(h, DefaultChain) = "bad"
    \/ /\ numbering(h, DefaultChain) # "none"
       /\ (h.location = <<>> \/ h.location[1] \notin 1..Len(vt))

\* C2: outline returns Ok(None) if and only if the heading's outlined field is
\* false; an outlined heading yields an entry at every level and for every
\* combination of numbering and outline override, when nothing fails.
C2_OutlineOmitsOnlyNotOutlined ==
    res.op = "outline" =>
        /\ (res.status = "ok" /\ res.val = <<>>) <=> (res.pre.outlined = <<FALSE>>)
        /\ (res.pre.outlined # <<FALSE>> /\ ~OutlineFails(res.pre, index)) =>
              (res.status = "ok" /\ res.val # <<>>)

\* outline has returned the entry of a numbered heading below the top level
\* that has an outline override.
C2_Witness ==
    /\ res.op = "outline"
    /\ res.status = "ok"
    /\ res.val # <<>>
    /\ Outlinable_level(res.pre) > 1
    /\ Refable_numbering(res.pre) # "none"
    /\ outline(res.pre, DefaultChain) # "none"

\* The values of the display field.
DisplayFields == {<<>>, <<"none">>} \cup {<<f>> : f \in Funcs}

\* C3: outline returns the same for headings that differ in the display
\* override only and calls nothing but the outline override; show calls
\* nothing but the display override.
C3_DisplayOverrideNotInOutline ==
    /\ \A d \in DisplayFields :
          Outlinable_outline([elem EXCEPT !.display = d], index)
              = Outlinable_outline(elem, index)
    /\ res.op = "outline" =>
          \A i \in 1..Len(res.calls) :
              res.calls[i].func = outline(res.pre, DefaultChain)
    /\ res.op = "show" =>
          /\ \A i \in 1..Len(res.calls) :
                res.calls[i].func = display(res.pre, styles)
          /\ display(res.pre, styles) = "none" => res.calls = <<>>

\* show has called a display override on a heading whose outline override is
\* another function, and the heading without the display override shows
\* differently, while the outline entries of the two are the same.
C3_Witness ==
    /\ res.op = "show"
    /\ res.status = "ok"
    /\ display(res.pre, styles) # "none"
    /\ outline(res.pre, styles) \notin {"none", display(res.pre, styles)}
    /\ show([res.pre EXCEPT !.display = <<"none">>], index, styles).val # res.val
    /\ Outlinable_outline([res.pre EXCEPT !.display = <<"none">>], index)
          = Outlinable_outline(res.pre, index)

\* C4: with a display override, show calls it exactly once with (number, body)
\* for a numbered heading and (none, body) otherwise, and the block's body is
\* its result; without one the body is number, weak 0.3em space, body for a
\* numbered heading and the bare body otherwise.
C4_ShowOverrideIsTotal ==
    res.op = "show" =>
        LET h == res.pre
            n == numbering(h, styles)
            f == display(h, styles)
            number == IF n = "none" THEN <<"none">>
                      ELSE <<"content", <<"counter-display", "heading", n, FALSE>> >>
            args == <<number, <<"content", h.body>> >>
        IN /\ f # "none" =>
                 /\ res.calls = << [func |-> f, args |-> args] >>
                 /\ res.status = IF f = "bad" THEN "err" ELSE "ok"
                 /\ res.status = "ok" => res.val = <<"block", <<"call", f, args>> >>
           /\ f = "none" =>
                 /\ res.calls = <<>>
                 /\ res.status = "ok"
                 /\ res.val = IF n = "none" THEN <<"block", h.body>>
                              ELSE <<"block", <<"sequence", number[2],
                                                <<"h", 3, TRUE>>, h.body>> >>

\* show has called the display override of a numbered heading.
C4_Witness ==
    /\ res.op = "show"
    /\ res.status = "ok"
    /\ numbering(res.pre, styles) # "none"
    /\ display(res.pre, styles) \in {"f", "g"}
    /\ Len(res.calls) = 1

\* The fields of the headings of the document.
DocLevels == [i \in 1..Len(doc) |-> doc[i].level[1]]
DocNumberings == [i \in 1..Len(doc) |-> doc[i].numbering[1]]
DocOutlined == [i \in 1..Len(doc) |-> doc[i].outlined[1]]

\* The outline entry of a heading numbered "1." with the given counter value.
LabelEntry(state) ==
    [status |-> "ok", calls |-> <<>>,
     val |-> << <<"sequence", <<"numbers", "1.", state>>, <<"space">>,
                  <<"text", "Title">> >> >>]

\* C5: four numbered headings of levels 1, 1, 2, 1 have the counter values
\* [1], [2], [2,1], [3] and four outline entries with those labels; with
\* outlined = false on the level-2 heading exactly its entry is missing and
\* the counter values are the same; no heading's update depends on outlined.
C5_EndToEnd ==
    /\ \A i \in 1..Len(doc) :
          update([doc[i] EXCEPT !.outlined = <<FALSE>>])
              = update([doc[i] EXCEPT !.outlined = <<TRUE>>])
    /\ ( /\ pc \in {"laid", "listed"}
         /\ DocLevels = <<1, 1, 2, 1>>
         /\ DocNumberings = <<"1.", "1.", "1.", "1.">>
         /\ DocOutlined \in {<<TRUE, TRUE, TRUE, TRUE>>, <<TRUE, TRUE, FALSE, TRUE>>} )
       => /\ index = << <<1>>, <<2>>, <<2, 1>>, <<3>> >>
          /\ pc = "listed" =>
                /\ listing[1] = LabelEntry(<<1>>)
                /\ listing[2] = LabelEntry(<<2>>)
                /\ listing[3] = IF DocOutlined[3] THEN LabelEntry(<<2, 1>>)
                                ELSE [status |-> "ok", calls |-> <<>>, val |-> <<>>]
                /\ listing[4] = LabelEntry(<<3>>)

\* The outline of the document with the level-2 heading not outlined.
C5_Witness ==
    /\ pc = "listed"
    /\ DocLevels = <<1, 1, 2, 1>>
    /\ DocNumberings = <<"1.", "1.", "1.", "1.">>
    /\ DocOutlined = <<TRUE, TRUE, FALSE, TRUE>>
    /\ listing[3].val = <<>>
    /\ index[3] = <<2, 1>>

\* C6: synthesize fails exactly when the supplement function fails; the error
\* is returned and the element is as it was before the call.
C6_FailedSynthesizeLeavesElement ==
    res.op = "synthesize" =>
        /\ res.status = "err" <=> supplement(res.pre, styles) = <<"func", "bad">>
        /\ res.status = "err" => elem = res.pre

\* synthesize has failed on an element with unset fields that the style chain
\* would have filled.
C6_Witness ==
    /\ res.op = "synthesize"
    /\ res.status = "err"
    /\ pc = "failed"
    /\ res.pre.level = <<>>
    /\ level(res.pre, styles) # DefaultLevel

\* C7: a second synthesize under the same style chain succeeds and leaves the
\* element, all six synthesized fields, and the counter index as they were.
C7_SynthesizeIdempotent ==
    [][ (pc = "synth" /\ res'.op = "synthesize")
          => (res'.status = "ok" /\ elem' = elem /\ index' = index) ]_vars

\* The second synthesize has run on a heading whose supplement was a function.
C7_Witness ==
    /\ pc = "resynth"
    /\ res.op = "synthesize"
    /\ res.pre.supplement[1][2][1] = "call"
    /\ elem.supplement = res.pre.supplement

\* C8: local_name returns a label for every language and region; "Section"
\* for a language without an arm, whatever the region; the region matters
\* for Chinese only, where TW gives the Traditional label and any other
\* region, or none, the Simplified one.
C8_LocalNameTotal ==
    /\ \A lang \in Langs \ {"zh"} : \A r1, r2 \in Regions :
          local_name(lang, r1) = local_name(lang, r2)
    /\ res.op = "local_name" =>
          LET lang == res.val[1]
              region == res.val[2]
              label == res.val[3]
          IN /\ label # ""
             /\ lang \notin TableLangs => label = "Section"
             /\ lang = "en" => label = "Section"
             /\ lang = "zh" =>
                   label = IF region = <<"TW">> THEN "xiaojie (Hant)"
                           ELSE "xiaojie (Hans)"

\* local_name has been asked for a language it has no arm for, with a region.
C8_Witness ==
    /\ res.op = "local_name"
    /\ res.val[1] \notin TableLangs
    /\ res.val[2] = <<"TW">>
    /\ res.val[3] = "Section"

\* C9: outline on an outlined, numbered heading whose location is absent (not
\* assigned, or not in the index) returns an error to the caller: no crash.
C9_AbsentLocationIsError ==
    ( /\ res.op = "outline"
      /\ outlined(res.pre, DefaultChain)
      /\ numbering(res.pre, DefaultChain) # "none"
      /\ (res.pre.location = <<>> \/ res.pre.location[1] \notin 1..Len(index)) )
    => res.status = "err"

\* What Refable::supplement returns for a supplement setting resolved before
\* synthesis.
StoredSupplement(s, self, chain) ==
    CASE s = <<"auto">> -> <<"text", local_name(lang_in(chain), region_in(chain))>>
      [] s = <<"none">> -> <<"empty">>
      [] s[1] = "content" -> s[2]
      [] OTHER -> <<"call", s[2], << <<"content", <<"heading", self>> >> >> >>

\* C10: after a successful synthesize under the style chain, the accessors
\* that read with the default chain see what the chain resolved: update,
\* numbering, level, outlined and the overrides are those show and finalize
\* resolve under the chain, and Refable::supplement is the stored content.
\* Before synthesize a numbering of the chain alone contributes no event.
C10_AccessorsSeeSynthesized ==
    /\ (pc = "synth" /\ res.op = "synthesize") =>
          LET p == res.pre
          IN /\ update(elem) = IF numbering(p, styles) # "none"
                               THEN << <<"step", level(p, styles)>> >>
                               ELSE <<>>
             /\ Refable_numbering(elem) = numbering(p, styles)
             /\ Outlinable_level(elem) = level(p, styles)
             /\ outlined(elem, DefaultChain) = outlined(p, styles)
             /\ outline(elem, DefaultChain) = outline(p, styles)
             /\ display(elem, DefaultChain) = display(p, styles)
             /\ level(elem, styles) = level(p, styles)
             /\ numbering(elem, styles) = numbering(p, styles)
             /\ display(elem, styles) = display(p, styles)
             /\ Refable_supplement(elem)
                   = StoredSupplement(supplement(p, styles), p, styles)
    /\ (pc = "new" /\ res.op = "update" /\ res.pre.numbering = <<>>) =>
          res.val = <<>>

\* synthesize has stored the numbering and the automatic supplement that only
\* the style chain supplied.
C10_Witness ==
    /\ pc = "synth"
    /\ res.op = "synthesize"
    /\ res.pre.numbering = <<>>
    /\ res.pre.supplement = <<>>
    /\ numbering(res.pre, styles) # "none"
    /\ update(res.pre) = <<>>
    /\ update(elem) # <<>>
    /\ Refable_supplement(elem) = <<"text", "Section">>

====
